---- MODULE Spec2Model ----
(***************************************************************************)
(* Verification model of the identity and consistency core of the URL      *)
(* shortener backend:                                                      *)
(*   - services/backhalf_alias/snowflake_generator.py  (SnowflakeGenerator)*)
(*   - services/backhalf_alias/base62.py               (base-62 codec)     *)
(*   - routes/url_router.py update_clicks_and_redirect, services/redis.py, *)
(*     repositories/CassandraClickRepo.py              (click buffer)      *)
(* Each subsystem has its own specification over the shared variables; the *)
(* variables of the other subsystems stay at their initial values.         *)
(***************************************************************************)
EXTENDS Integers, Sequences, FiniteSets, TLC

VARIABLES
  \* ---- wall clock (time.time() * 1000, as read by _current_timestamp)
  clock,
  \* ---- SnowflakeGenerator instances (fields of self)
  worker_id,        \* [Gens -> 0..max_worker_id], fixed at construction
  lock,             \* [Gens -> Threads \cup {NoThread}]: holder of self.lock
  last_timestamp,   \* [Gens -> Int]
  sequence,         \* [Gens -> Int]
  sequence_num,     \* [Gens -> Int]: the attribute line 151 assigns
  \* ---- callers of next_id()
  pc,               \* [Threads -> position in next_id]
  gen,              \* [Threads -> Gens]: the instance the thread is calling
  timestamp,        \* [Threads -> Int]: the local variable `timestamp`
  seen,             \* [Threads -> [last, seq]]: self.last_timestamp and
                    \*   self.sequence as the call found them at line 124
  outcome,          \* [Threads -> result of the thread's latest call]
  issued,           \* [Gens -> Seq(Int)]: ids in critical-section order
  ncalls,           \* number of next_id() calls started
  \* ---- base-62 codec harness
  b62_num,          \* the integer under test
  b62_str,          \* the string under test (sequence of characters)
  b62_enc,          \* result of encode_base_62(b62_num), or NotRun
  b62_dec,          \* result of decode_base_62(b62_enc), or NotRun
  b62_sdec,         \* result of decode_base_62(b62_str), or NotRun
  \* ---- click buffer
  redis_clicks,     \* redis keys url_click:<code>: a function from the
                    \*   codes whose key exists to the stored integer
  url_clicks,       \* cassandra table url_clicks_by_backhalf_alias: a function
                    \*   from the codes that have a row to total_clicks
  rpc,              \* [Tasks -> position in update_clicks_and_redirect]
  rcode,            \* [Tasks -> Codes]: backhalf_alias of the running call
  click_count,      \* [Tasks -> Int]: the local variable `click_count`
  started,          \* [Codes -> Nat]: update_clicks_and_redirect calls made
  flushes,          \* [Codes -> Seq(Nat)]: deltas passed to update_url_clicks
  overlapped,       \* [Codes -> BOOLEAN]: two calls on the code ever ran
                    \*   at the same time
  \* ---- sessions
  total_clicks,     \* [Codes -> Int]: the total_clicks get_url last returned
                    \*   for the code, -1 before the first read
  now,              \* the clock of the session code, in ticks
  sessions,         \* postgres table sessions
  redis_sessions,   \* redis hashes session:<token>
  spc,              \* [Procs -> position in the request handler]
  op,               \* [Procs -> the handler the worker runs or ran last]
  user_id,          \* [Procs -> Users]: the user logging in
  session_token,    \* [Procs -> Tokens]: the cookie, or the token created
  existing_session, \* [Procs -> Tokens]: login's local existing_session
  session,          \* [Procs -> the local `session` of authenticate_request]
  ttl,              \* [Procs -> Int]: the local `ttl` of cache_set_session
  current_time,     \* [Procs -> Int]: the local current_time of require_auth
  response,         \* [Procs -> status of the worker's latest request]
  verdict,          \* [Procs -> how the latest require_auth was decided,
                    \*   and what the stores held at that moment]
  attempted,        \* [Procs -> stores logout's delete was attempted on]
  born,             \* a function from the tokens created so far to the
                    \*   time of their creation
  cookies,          \* tokens handed to a client in a cookie
  ended,            \* [Tokens -> "no", "logout", "admin", "expired"]: a termination
                    \*   of the token's session has completed
  nops,             \* number of requests started
  workers           \* the workers that take requests (a subset of Procs)

genVars   == <<clock, worker_id, lock, last_timestamp, sequence, sequence_num,
               pc, gen, timestamp, seen, outcome, issued, ncalls>>
b62Vars   == <<b62_num, b62_str, b62_enc, b62_dec, b62_sdec>>
clickVars == <<redis_clicks, url_clicks, rpc, rcode, click_count, started,
               flushes, overlapped, total_clicks>>
sessVars  == <<now, sessions, redis_sessions, spc, op, user_id,
               session_token, existing_session, session, ttl, current_time,
               response, verdict, attempted, born, cookies, ended, nops,
               workers>>
vars      == <<genVars, b62Vars, clickVars, sessVars>>
notGen    == <<b62Vars, clickVars, sessVars>>
notB62    == <<genVars, clickVars, sessVars>>
notClick  == <<genVars, b62Vars, sessVars>>
notSess   == <<genVars, b62Vars, clickVars>>

(***************************************************************************)
(* Bounds of the model                                                     *)
(***************************************************************************)
MaxTick  == 3      \* the clock ranges over epoch .. epoch + MaxTick
MaxCalls == 3      \* next_id() calls started in one behaviour

Threads  == {"t1", "t2"}
Gens     == {"g1", "g2"}
NoThread == "none"

(***************************************************************************)
(* Integer helpers for Python's <<, | and **                               *)
(***************************************************************************)
RECURSIVE Pow(_, _)
Pow(b, e) == IF e = 0 THEN 1 ELSE b * Pow(b, e - 1)

ShiftLeft(x, n) == x * Pow(2, n)

RECURSIVE BitOr(_, _)
BitOr(a, b) ==
  IF a = 0 THEN b
  ELSE IF b = 0 THEN a
  ELSE (IF a % 2 = 1 \/ b % 2 = 1 THEN 1 ELSE 0) + 2 * BitOr(a \div 2, b \div 2)

(***************************************************************************)
(* SnowflakeGenerator.__init__                                             *)
(***************************************************************************)
worker_id_bits  == 10
sequence_bits   == 12
max_worker_id   == ShiftLeft(1, worker_id_bits) - 1
max_sequence    == ShiftLeft(1, sequence_bits) - 1
worker_id_shift == sequence_bits
timestamp_shift == worker_id_bits + sequence_bits

\* The default epoch 1288834974657 does not fit TLC's 32-bit integers; the
\* model keeps every timestamp as an absolute millisecond count over a small
\* epoch, so `timestamp - self.epoch` is still computed.
epoch == 100

\* worker ids the two instances are constructed with (g1 as AliasGenerator
\* constructs it, g2 with the same or another slot)
WorkerIdChoices == {0, 1, max_worker_id}

NoAttr == -1   \* self.sequence_num before line 151 creates it (no attribute)

None == [kind |-> "none", id |-> -1]

InitGen ==
  /\ clock = epoch
  /\ worker_id \in {w \in [Gens -> WorkerIdChoices] : w["g1"] = 0}
  /\ \A g \in Gens : 0 <= worker_id[g] /\ worker_id[g] <= max_worker_id
  /\ lock = [g \in Gens |-> NoThread]
  /\ last_timestamp = [g \in Gens |-> -1]
  /\ sequence = [g \in Gens |-> 0]
  /\ sequence_num = [g \in Gens |-> NoAttr]
  /\ pc = [t \in Threads |-> "idle"]
  /\ gen = [t \in Threads |-> "g1"]
  /\ timestamp = [t \in Threads |-> -1]
  /\ seen = [t \in Threads |-> [last |-> -1, seq |-> 0]]
  /\ outcome = [t \in Threads |-> None]
  /\ issued = [g \in Gens |-> <<>>]
  /\ ncalls = 0

IdleGen ==
  /\ clock = epoch
  /\ worker_id = [g \in Gens |-> 0]
  /\ lock = [g \in Gens |-> NoThread]
  /\ last_timestamp = [g \in Gens |-> -1]
  /\ sequence = [g \in Gens |-> 0]
  /\ sequence_num = [g \in Gens |-> NoAttr]
  /\ pc = [t \in Threads |-> "idle"]
  /\ gen = [t \in Threads |-> "g1"]
  /\ timestamp = [t \in Threads |-> -1]
  /\ seen = [t \in Threads |-> [last |-> -1, seq |-> 0]]
  /\ outcome = [t \in Threads |-> None]
  /\ issued = [g \in Gens |-> <<>>]
  /\ ncalls = 0

(***************************************************************************)
(* The wall clock: it advances, and it may be set back (NTP, an operator). *)
(***************************************************************************)
Tick ==
  /\ clock < epoch + MaxTick
  /\ clock' = clock + 1
  /\ UNCHANGED <<notGen, worker_id, lock, last_timestamp, sequence, sequence_num, pc,
                 gen, timestamp, seen, outcome, issued, ncalls>>

ClockBack ==
  /\ \E c \in epoch .. (clock - 1) : clock' = c
  /\ UNCHANGED <<notGen, worker_id, lock, last_timestamp, sequence, sequence_num, pc,
                 gen, timestamp, seen, outcome, issued, ncalls>>

(***************************************************************************)
(* SnowflakeGenerator.next_id, one action per step of the method           *)
(***************************************************************************)
\* line 164-168: the id composed from the three fields
SnowflakeIdNoWorker(ts, w, seq) ==
  BitOr(ShiftLeft(ts - epoch, timestamp_shift), seq)

SnowflakeId(ts, w, seq) ==
  BitOr(BitOr(ShiftLeft(ts - epoch, timestamp_shift),
              ShiftLeft(w, worker_id_shift)),
        seq)

\* line 120: `with self.lock` can be entered
LockIgnored(g) == TRUE

LockFree(g) == lock[g] = NoThread

\* line 124: `timestamp < self.last_timestamp`
ClockNeverBackwards(ts, last) == FALSE

ClockMovedBackwards(ts, last) == ts < last

\* a thread calls next_id() on instance g
NextIdCall(t, g) ==
  /\ pc[t] = "idle"
  /\ ncalls < MaxCalls
  /\ pc' = [pc EXCEPT ![t] = "lock"]
  /\ gen' = [gen EXCEPT ![t] = g]
  /\ outcome' = [outcome EXCEPT ![t] = None]
  /\ ncalls' = ncalls + 1
  /\ timestamp' = [timestamp EXCEPT ![t] = -1]
  /\ seen' = [seen EXCEPT ![t] = [last |-> -1, seq |-> 0]]
  /\ UNCHANGED <<notGen, clock, worker_id, lock, last_timestamp, sequence,
                 sequence_num, issued>>

\* line 120: acquire self.lock
NextIdAcquire(t) ==
  /\ pc[t] = "lock"
  /\ LockFree(gen[t])
  /\ lock' = [lock EXCEPT ![gen[t]] = t]
  /\ pc' = [pc EXCEPT ![t] = "read"]
  /\ UNCHANGED <<notGen, clock, worker_id, last_timestamp, sequence, sequence_num,
                 gen, timestamp, seen, outcome, issued, ncalls>>

\* line 121: timestamp = self._current_timestamp()
NextIdReadClock(t) ==
  /\ pc[t] = "read"
  /\ timestamp' = [timestamp EXCEPT ![t] = clock]
  /\ pc' = [pc EXCEPT ![t] = "check"]
  /\ UNCHANGED <<notGen, clock, worker_id, lock, last_timestamp, sequence,
                 sequence_num, gen, seen, outcome, issued, ncalls>>

\* leaving the `with` block releases the lock only if this thread holds it
Released(t) ==
  [lock EXCEPT ![gen[t]] = IF lock[gen[t]] = t THEN NoThread ELSE @]

Seen(t) == [last |-> last_timestamp[gen[t]], seq |-> sequence[gen[t]]]

\* line 124-125: the clock moved backwards: raise Exception("Clock moved
\* backwards. ..."), the with block releases the lock
NextIdClockBackwards(t) ==
  /\ pc[t] = "check"
  /\ ClockMovedBackwards(timestamp[t], last_timestamp[gen[t]])
  /\ seen' = [seen EXCEPT ![t] = Seen(t)]
  /\ outcome' = [outcome EXCEPT ![t] = [kind |-> "ClockMovedBackwards", id |-> -1]]
  /\ lock' = Released(t)
  /\ pc' = [pc EXCEPT ![t] = "idle"]
  /\ UNCHANGED <<notGen, clock, worker_id, last_timestamp, sequence, sequence_num,
                 gen, timestamp, issued, ncalls>>

\* line 127, 146: same millisecond. The right-hand side of line 146 reads
\* self.max_sequence_num, an attribute __init__ never sets (it sets
\* self.max_sequence): AttributeError is raised before self.sequence is
\* assigned, and the with block releases the lock. Lines 147-148 and
\* _wait_next_millisecond are therefore never executed.
NextIdSameMillisecond(t) ==
  /\ pc[t] = "check"
  /\ ~ClockMovedBackwards(timestamp[t], last_timestamp[gen[t]])
  /\ timestamp[t] = last_timestamp[gen[t]]
  /\ seen' = [seen EXCEPT ![t] = Seen(t)]
  /\ outcome' = [outcome EXCEPT ![t] = [kind |-> "AttributeError", id |-> -1]]
  /\ lock' = Released(t)
  /\ pc' = [pc EXCEPT ![t] = "idle"]
  /\ UNCHANGED <<notGen, clock, worker_id, last_timestamp, sequence, sequence_num,
                 gen, timestamp, issued, ncalls>>

\* line 149-151: the else branch assigns self.sequence_num, not self.sequence
NextIdNewMillisecond(t) ==
  /\ pc[t] = "check"
  /\ ~ClockMovedBackwards(timestamp[t], last_timestamp[gen[t]])
  /\ timestamp[t] # last_timestamp[gen[t]]
  /\ seen' = [seen EXCEPT ![t] = Seen(t)]
  /\ sequence_num' = [sequence_num EXCEPT ![gen[t]] = 0]
  /\ pc' = [pc EXCEPT ![t] = "track"]
  /\ UNCHANGED <<notGen, clock, worker_id, lock, last_timestamp, sequence, gen,
                 timestamp, outcome, issued, ncalls>>

\* line 154: self.last_timestamp = timestamp
NextIdTrack(t) ==
  /\ pc[t] = "track"
  /\ last_timestamp' = [last_timestamp EXCEPT ![gen[t]] = timestamp[t]]
  /\ pc' = [pc EXCEPT ![t] = "compose"]
  /\ UNCHANGED <<notGen, clock, worker_id, lock, sequence, sequence_num, gen,
                 timestamp, seen, outcome, issued, ncalls>>

\* line 164-170: compose the id, leave the with block, return
NextIdReturn(t) ==
  LET id == SnowflakeId(timestamp[t], worker_id[gen[t]], sequence[gen[t]])
  IN /\ pc[t] = "compose"
     /\ outcome' = [outcome EXCEPT ![t] = [kind |-> "id", id |-> id]]
     /\ issued' = [issued EXCEPT ![gen[t]] = Append(@, id)]
     /\ lock' = Released(t)
     /\ pc' = [pc EXCEPT ![t] = "idle"]
     /\ UNCHANGED <<notGen, clock, worker_id, last_timestamp, sequence, sequence_num,
                    gen, timestamp, seen, ncalls>>

NextGen ==
  \/ Tick
  \/ ClockBack
  \/ \E t \in Threads, g \in Gens : NextIdCall(t, g)
  \/ \E t \in Threads : NextIdAcquire(t)
  \/ \E t \in Threads : NextIdReadClock(t)
  \/ \E t \in Threads : NextIdClockBackwards(t)
  \/ \E t \in Threads : NextIdSameMillisecond(t)
  \/ \E t \in Threads : NextIdNewMillisecond(t)
  \/ \E t \in Threads : NextIdTrack(t)
  \/ \E t \in Threads : NextIdReturn(t)

\* A test harness assigns the public attribute: generator.sequence = 4095
\* ("forcing the sequence counter to its maximum"), between calls.
ForceSequence(g) ==
  /\ lock[g] = NoThread
  /\ sequence[g] # max_sequence
  /\ sequence' = [sequence EXCEPT ![g] = max_sequence]
  /\ UNCHANGED <<notGen, clock, worker_id, lock, last_timestamp, sequence_num,
                 pc, gen, timestamp, seen, outcome, issued, ncalls>>

NextForced ==
  \/ NextGen
  \/ \E g \in Gens : ForceSequence(g)

(***************************************************************************)
(* base62.py                                                               *)
(***************************************************************************)
base == 62

character_set ==
  << "0", "1", "2", "3", "4", "5", "6", "7", "8", "9",
     "A", "B", "C", "D", "E", "F", "G", "H", "I", "J", "K", "L", "M",
     "N", "O", "P", "Q", "R", "S", "T", "U", "V", "W", "X", "Y", "Z",
     "a", "b", "c", "d", "e", "f", "g", "h", "i", "j", "k", "l", "m",
     "n", "o", "p", "q", "r", "s", "t", "u", "v", "w", "x", "y", "z" >>

\* line 3-6: the dictionary built by the loop over character_set
character_to_value ==
  [c \in {character_set[i] : i \in 1 .. Len(character_set)} |->
     (CHOOSE i \in 1 .. Len(character_set) : character_set[i] = c) - 1]

\* line 15-19: the while loop of encode_base_62
RECURSIVE EncodeLoop(_, _)
EncodeLoop(num, encoded_str) ==
  IF num > 0
  THEN EncodeLoop(num \div base,
                  <<character_set[(num % base) + 1]>> \o encoded_str)
  ELSE encoded_str

encode_base_62_padded(num) ==
  IF num = 0 THEN <<"0">> ELSE <<"0">> \o EncodeLoop(num, <<>>)

encode_base_62(num) ==
  IF num = 0 THEN <<"0">> ELSE EncodeLoop(num, <<>>)

IntResult(n) == [kind |-> "int", value |-> n]
KeyError     == [kind |-> "KeyError", value |-> -1]

\* line 25-27: the loop of decode_base_62 over enumerate(reversed(str));
\* character_to_value[char] raises KeyError for a character that is no key
RECURSIVE DecodeLoop(_, _, _)
DecodeLoop(str, index, total) ==
  IF index >= Len(str) THEN IntResult(total)
  ELSE LET char == str[Len(str) - index]
       IN IF char \notin DOMAIN character_to_value THEN KeyError
          ELSE DecodeLoop(str, index + 1,
                          total + character_to_value[char] * Pow(base, index))

\* a decoder that skips characters it does not know
RECURSIVE DecodeLoopSkipping(_, _, _)
DecodeLoopSkipping(str, index, total) ==
  IF index >= Len(str) THEN IntResult(total)
  ELSE LET char == str[Len(str) - index]
       IN IF char \notin DOMAIN character_to_value
          THEN DecodeLoopSkipping(str, index + 1, total)
          ELSE DecodeLoopSkipping(str, index + 1,
                          total + character_to_value[char] * Pow(base, index))

decode_base_62_skipping(str) == DecodeLoopSkipping(str, 0, 0)

\* a decoder that forgets reversed(): the first character is the lowest digit
RECURSIVE DecodeLoopForward(_, _, _)
DecodeLoopForward(str, index, total) ==
  IF index >= Len(str) THEN IntResult(total)
  ELSE LET char == str[index + 1]
       IN IF char \notin DOMAIN character_to_value THEN KeyError
          ELSE DecodeLoopForward(str, index + 1,
                          total + character_to_value[char] * Pow(base, index))

decode_base_62_forward(str) == DecodeLoopForward(str, 0, 0)

decode_base_62(str) == DecodeLoop(str, 0, 0)

(***************************************************************************)
(* AliasGenerator: the process-wide instance _alias_generator owns one     *)
(* SnowflakeGenerator with worker_id 0, the instance g1 of the model       *)
(***************************************************************************)
alias_generator == "g1"

\* mutant of generate_backhalf_alias: only the bits below the timestamp are
\* encoded
generate_backhalf_alias_low_bits(uid) ==
  encode_base_62(uid % Pow(2, timestamp_shift))

\* alias_generator.py line 37-39, applied to the uid next_id() returned
generate_backhalf_alias(uid) == encode_base_62(uid)

(***************************************************************************)
(* Inputs of the codec                                                     *)
(***************************************************************************)
MaxSmall  == 70    \* every integer 0 .. MaxSmall is encoded
MaxPow    == 4     \* and 62^k - 1, 62^k, 62^k + 1 for k in 2 .. MaxPow
MaxStrLen == 3     \* strings of up to MaxStrLen characters are decoded

Base62Inputs ==
  (0 .. MaxSmall)
    \cup UNION {{Pow(base, k) - 1, Pow(base, k), Pow(base, k) + 1} : k \in 2 .. MaxPow}
    \cup {Pow(2, 30) - 1 + Pow(2, 30)}

\* characters of the decoded strings: the lowest and highest digit of the
\* alphabet, one of its middle, and two characters outside it
StringChars == {"0", "A", "z", "!", "-"}

RECURSIVE StringsOfLen(_)
StringsOfLen(n) ==
  IF n = 0 THEN {<<>>}
  ELSE {<<c>> \o s : c \in StringChars, s \in StringsOfLen(n - 1)}

Base62Strings == UNION {StringsOfLen(n) : n \in 0 .. MaxStrLen}

NotRunStr == [kind |-> "notrun", value |-> <<>>]
NotRunInt == [kind |-> "notrun", value |-> -1]

InitB62 ==
  /\ b62_num \in Base62Inputs
  /\ b62_str \in Base62Strings
  /\ b62_enc = NotRunStr
  /\ b62_dec = NotRunInt
  /\ b62_sdec = NotRunInt

IdleB62 ==
  /\ b62_num = 0
  /\ b62_str = <<>>
  /\ b62_enc = NotRunStr
  /\ b62_dec = NotRunInt
  /\ b62_sdec = NotRunInt

\* encode_base_62(b62_num)
Encode ==
  /\ b62_enc = NotRunStr
  /\ b62_enc' = [kind |-> "str", value |-> encode_base_62(b62_num)]
  /\ UNCHANGED <<notB62, b62_num, b62_str, b62_dec, b62_sdec>>

\* decode_base_62 applied to the encoder's result
DecodeEncoded ==
  /\ b62_enc # NotRunStr
  /\ b62_dec = NotRunInt
  /\ b62_dec' = decode_base_62(b62_enc.value)
  /\ UNCHANGED <<notB62, b62_num, b62_str, b62_enc, b62_sdec>>

\* decode_base_62(b62_str)
DecodeString ==
  /\ b62_sdec = NotRunInt
  /\ b62_sdec' = decode_base_62(b62_str)
  /\ UNCHANGED <<notB62, b62_num, b62_str, b62_enc, b62_dec>>

NextB62 ==
  \/ Encode
  \/ DecodeEncoded
  \/ DecodeString


(***************************************************************************)
(* Click buffer: redis.py, CassandraClickRepo.py and                       *)
(* update_clicks_and_redirect of url_router.py                             *)
(***************************************************************************)
MaxClicks == 5     \* update_clicks_and_redirect calls started in a behaviour

Tasks == {"k1", "k2"}
Codes == {"c1", "c2"}

\* settings.CLICK_THRESHOLD: url_router.py line 384 reads it, config.py does
\* not declare it (nor the session lifetimes auth_utils.py reads); it is the
\* "configured threshold" of the design, a deployment parameter
CLICK_THRESHOLD == 3

\* redis.py line 66-74: INCR creates the key at 1 or adds 1; the new store
cache_increment_url_click(store, c) ==
  IF c \in DOMAIN store
  THEN [store EXCEPT ![c] = @ + 1]
  ELSE [k \in DOMAIN store \cup {c} |-> IF k = c THEN 1 ELSE store[k]]

\* redis.py line 60-63: DEL removes the key
cache_delete_url_click_noop(store, c) == store

cache_delete_url_click(store, c) ==
  [k \in DOMAIN store \ {c} |-> store[k]]

\* redis.py line 77-81: GET, `int(result) if result else 0`
cache_get_url_click(store, c) ==
  IF c \in DOMAIN store THEN store[c] ELSE 0

\* CassandraClickRepo.py line 23-35: UPDATE ... SET total_clicks =
\* total_clicks + ?, creating the row when there is none
update_url_clicks_overwrite(table, c, n) ==
  [k \in DOMAIN table \cup {c} |-> IF k = c THEN n ELSE table[k]]

update_url_clicks(table, c, n) ==
  IF c \in DOMAIN table
  THEN [table EXCEPT ![c] = @ + n]
  ELSE [k \in DOMAIN table \cup {c} |-> IF k = c THEN n ELSE table[k]]

\* mutant of get_total_clicks: the unflushed cache delta is added
get_total_clicks_with_delta(table, c) ==
  (IF c \in DOMAIN table THEN table[c] ELSE 0)
    + cache_get_url_click(redis_clicks, c)

\* CassandraClickRepo.py line 37-53: 0 when there is no row
get_total_clicks(table, c) ==
  IF c \in DOMAIN table THEN table[c] ELSE 0

\* url_router.py line 384: `click_count >= settings.CLICK_THRESHOLD`
ThresholdExceeded(n) == n > CLICK_THRESHOLD

ThresholdReached(n) == n >= CLICK_THRESHOLD

\* the rows create_url leaves (url_router.py line 293 adds 0 to a new code's
\* counter); a code that was never created has no row
FreshTables == {[c \in cs |-> 0] : cs \in SUBSET Codes}

InitClick ==
  /\ redis_clicks = [c \in {} |-> 0]
  /\ url_clicks \in FreshTables
  /\ rpc = [k \in Tasks |-> "idle"]
  /\ rcode = [k \in Tasks |-> "c1"]
  /\ click_count = [k \in Tasks |-> 0]
  /\ started = [c \in Codes |-> 0]
  /\ flushes = [c \in Codes |-> <<>>]
  /\ overlapped = [c \in Codes |-> FALSE]
  /\ total_clicks = [c \in Codes |-> -1]

IdleClick ==
  /\ redis_clicks = [c \in {} |-> 0]
  /\ url_clicks = [c \in {} |-> 0]
  /\ rpc = [k \in Tasks |-> "idle"]
  /\ rcode = [k \in Tasks |-> "c1"]
  /\ click_count = [k \in Tasks |-> 0]
  /\ started = [c \in Codes |-> 0]
  /\ flushes = [c \in Codes |-> <<>>]
  /\ overlapped = [c \in Codes |-> FALSE]
  /\ total_clicks = [c \in Codes |-> -1]

\* the calls of update_clicks_and_redirect running on code c
InProgress(c) ==
  {k \in Tasks : rpc[k] \notin {"idle", "failed"} /\ rcode[k] = c}

RECURSIVE SumOver(_, _)
SumOver(f, S) ==
  IF S = {} THEN 0
  ELSE LET x == CHOOSE y \in S : TRUE IN f[x] + SumOver(f, S \ {x})

TotalStarted == SumOver(started, Codes)

\* a request handler calls update_clicks_and_redirect(c, ...)
RecordClickCall(k, c) ==
  /\ rpc[k] \in {"idle", "failed"}
  /\ TotalStarted < MaxClicks
  /\ rpc' = [rpc EXCEPT ![k] = "incr"]
  /\ rcode' = [rcode EXCEPT ![k] = c]
  /\ started' = [started EXCEPT ![c] = @ + 1]
  /\ overlapped' = [overlapped EXCEPT ![c] = @ \/ InProgress(c) # {}]
  /\ UNCHANGED <<notClick, redis_clicks, url_clicks, click_count, flushes,
                 total_clicks>>

\* line 383: click_count = await cache_increment_url_click(backhalf_alias)
RecordClickIncrement(k) ==
  /\ rpc[k] = "incr"
  /\ redis_clicks' = cache_increment_url_click(redis_clicks, rcode[k])
  /\ click_count' = [click_count EXCEPT ![k] = redis_clicks'[rcode[k]]]
  /\ rpc' = [rpc EXCEPT ![k] = "check"]
  /\ UNCHANGED <<notClick, url_clicks, rcode, started, flushes, overlapped,
                 total_clicks>>

\* line 384, 388: below the threshold the handler returns the redirect
RecordClickBelow(k) ==
  /\ rpc[k] = "check"
  /\ ~ThresholdReached(click_count[k])
  /\ rpc' = [rpc EXCEPT ![k] = "idle"]
  /\ UNCHANGED <<notClick, redis_clicks, url_clicks, rcode, click_count,
                 started, flushes, overlapped,
                 total_clicks>>

\* line 384-385: await cache_delete_url_click(backhalf_alias)
RecordClickDelete(k) ==
  /\ rpc[k] = "check"
  /\ ThresholdReached(click_count[k])
  /\ redis_clicks' = cache_delete_url_click(redis_clicks, rcode[k])
  /\ rpc' = [rpc EXCEPT ![k] = "flush"]
  /\ UNCHANGED <<notClick, url_clicks, rcode, click_count, started, flushes,
                 overlapped,
                 total_clicks>>

\* line 386, 388: cassandra_click_repo.update_url_clicks(backhalf_alias,
\* click_count), then the redirect is returned
RecordClickFlush(k) ==
  /\ rpc[k] = "flush"
  /\ url_clicks' = update_url_clicks(url_clicks, rcode[k], click_count[k])
  /\ flushes' = [flushes EXCEPT ![rcode[k]] = Append(@, click_count[k])]
  /\ rpc' = [rpc EXCEPT ![k] = "idle"]
  /\ UNCHANGED <<notClick, redis_clicks, rcode, click_count, started,
                 overlapped,
                 total_clicks>>

\* url_router.get_url line 100: total_clicks =
\* cassandra_click_repo.get_total_clicks(backhalf_alias)
GetTotalClicks(c) ==
  /\ total_clicks' = [total_clicks EXCEPT ![c] =
                        get_total_clicks(url_clicks, c)]
  /\ UNCHANGED <<notClick, redis_clicks, url_clicks, rpc, rcode, click_count,
                 started, flushes, overlapped>>

NextClick ==
  \/ \E k \in Tasks, c \in Codes : RecordClickCall(k, c)
  \/ \E k \in Tasks : RecordClickIncrement(k)
  \/ \E k \in Tasks : RecordClickBelow(k)
  \/ \E k \in Tasks : RecordClickDelete(k)
  \/ \E k \in Tasks : RecordClickFlush(k)
  \/ \E c \in Codes : GetTotalClicks(c)

\* line 386: session.execute raises (cassandra unavailable, timeout); nothing
\* in update_clicks_and_redirect catches it, the handler ends with the error
RecordClickFlushFails(k) ==
  /\ rpc[k] = "flush"
  /\ rpc' = [rpc EXCEPT ![k] = "failed"]
  /\ UNCHANGED <<notClick, redis_clicks, url_clicks, rcode, click_count,
                 started, flushes, overlapped,
                 total_clicks>>

NextClickFail ==
  \/ NextClick
  \/ \E k \in Tasks : RecordClickFlushFails(k)

(***************************************************************************)
(* Sessions: services/auth_utils.py, services/redis.py (session helpers),  *)
(* repositories/PostgresSessionRepo.py, routes/auth_router.py (login,      *)
(* logout) and routes/user_router.py (change_admin_status)                 *)
(***************************************************************************)
MaxNow == 4        \* the session clock ranges over 0 .. MaxNow
MaxOps == 3        \* requests started in one behaviour

Procs      == {"r1", "r2"}
Users      == {"u1"}
Tokens     == {"s1", "s2"}
NoToken    == "none"
NoUser     == "none"
NoResponse == "none"

\* settings.SESSION_IDLE_LIFETIME and settings.SESSION_ABSOLUTE_LIFETIME
\* (30 minutes and 3 hours in the specification), in ticks of the clock
SESSION_IDLE_LIFETIME     == 1
SESSION_ABSOLUTE_LIFETIME == 3

Max(a, b) == IF a >= b THEN a ELSE b

\* ---- PostgresSessionRepo: the table is a function from the session
\* ---- tokens that have a row to [user_id, created_at, last_active_at]
repo_create_session(table, u, tok, created, last_active) ==
  (tok :> [user_id |-> u, created_at |-> created,
           last_active_at |-> last_active]) @@ table

update_session_last_active_by_user_id(table, last_active, u) ==
  [tok \in DOMAIN table |->
     IF table[tok].user_id = u
       THEN [table[tok] EXCEPT !.last_active_at = last_active]
       ELSE table[tok]]

\* fetchrow returns any one matching row: the set of tokens it may return
get_session_by_user_id(table, u) ==
  {tok \in DOMAIN table : table[tok].user_id = u}

delete_session_by_user_id(table, u) ==
  [tok \in {x \in DOMAIN table : table[x].user_id # u} |-> table[tok]]

get_session_by_token(table, tok) == tok \in DOMAIN table

delete_session_by_token(table, tok) ==
  [x \in DOMAIN table \ {tok} |-> table[x]]

\* ---- redis session hashes: a function from the tokens whose key
\* ---- session:<token> exists to [complete, user_id, created_at,
\* ---- last_active_at, has_ttl, expire_at]; complete is FALSE for a hash
\* ---- that holds the field last_active_at only
\* mutant of cache_update_session: the write also drops the key's TTL
cache_update_session_persist(store, tok, last_active) ==
  (tok :> [complete |-> tok \in DOMAIN store /\ store[tok].complete,
           user_id |-> IF tok \in DOMAIN store THEN store[tok].user_id
                       ELSE NoUser,
           created_at |-> IF tok \in DOMAIN store THEN store[tok].created_at
                          ELSE 0,
           last_active_at |-> last_active, has_ttl |-> FALSE,
           expire_at |-> 0]) @@ store

\* HSET key last_active_at <t>: creates the key, without a TTL, if missing
cache_update_session(store, tok, last_active) ==
  IF tok \in DOMAIN store
    THEN [store EXCEPT ![tok].last_active_at = last_active]
    ELSE (tok :> [complete |-> FALSE, user_id |-> NoUser, created_at |-> 0,
                  last_active_at |-> last_active, has_ttl |-> FALSE,
                  expire_at |-> 0]) @@ store

\* cache_set_session line 112: HSET key mapping=session_obj (a TTL the key
\* already has is kept)
cache_set_session_hset(store, tok, u, created, last_active) ==
  (tok :> [complete |-> TRUE, user_id |-> u, created_at |-> created,
           last_active_at |-> last_active,
           has_ttl |-> IF tok \in DOMAIN store THEN store[tok].has_ttl
                       ELSE FALSE,
           expire_at |-> IF tok \in DOMAIN store THEN store[tok].expire_at
                         ELSE 0]) @@ store

cache_delete_session(store, tok) ==
  [x \in DOMAIN store \ {tok} |-> store[x]]

\* mutant of cache_set_session_expire: the EXPIRE is left out
cache_set_session_no_expire(store, tok, t, seconds) == store

\* cache_set_session line 113: EXPIRE key ttl, executed at time t; a TTL
\* of zero deletes the key
cache_set_session_expire(store, tok, t, seconds) ==
  IF tok \notin DOMAIN store THEN store
  ELSE IF seconds <= 0 THEN cache_delete_session(store, tok)
  ELSE [store EXCEPT ![tok].has_ttl = TRUE, ![tok].expire_at = t + seconds]

\* HGETALL: an empty dict for a missing key
cache_get_session(store, tok) == tok \in DOMAIN store

\* redis drops the keys whose TTL has run out at time t
ExpireKeys(store, t) ==
  [tok \in {x \in DOMAIN store :
              ~store[x].has_ttl \/ store[x].expire_at > t} |-> store[tok]]

\* auth_utils.check_session_expiration at current time t
check_session_expiration(row, t) ==
  IF t > row.created_at + SESSION_ABSOLUTE_LIFETIME THEN "absolute"
  ELSE IF t - row.last_active_at > SESSION_IDLE_LIFETIME THEN "idle"
  ELSE "valid"

NoSession ==
  [kind |-> "none", complete |-> FALSE, user_id |-> NoUser]

NoVerdict ==
  [res |-> "none", via |-> "none", had_row |-> FALSE, idle_over |-> FALSE,
   idle_left |-> FALSE,
   abs_over |-> FALSE, abs_left |-> FALSE, ended_before |-> "no",
   cache_failed |-> FALSE, touch_failed |-> "no"]

\* the verdict of authenticate_request on the request of worker p, with
\* what the durable store and the clock say about its token at that moment:
\* the row exists, it has been idle for longer than the idle lifetime, the
\* or for less than it (idle_left), the session is older than (abs_over) or
\* younger than (abs_left) the absolute lifetime
Decide(p, res, via, failed) ==
  [res          |-> res,
   via          |-> via,
   had_row      |-> session_token[p] \in DOMAIN sessions,
   idle_over    |-> /\ session_token[p] \in DOMAIN sessions
                    /\ now - sessions[session_token[p]].last_active_at
                         > SESSION_IDLE_LIFETIME,
   idle_left    |-> /\ session_token[p] \in DOMAIN sessions
                    /\ now - sessions[session_token[p]].last_active_at
                         < SESSION_IDLE_LIFETIME,
   abs_over     |-> now - born[session_token[p]] > SESSION_ABSOLUTE_LIFETIME,
   abs_left     |-> now - born[session_token[p]] < SESSION_ABSOLUTE_LIFETIME,
   ended_before |-> verdict[p].ended_before,
   cache_failed |-> failed,
   touch_failed |-> "no"]

\* the stores are empty and the workers W are free
SessStart(W) ==
  /\ workers = W
  /\ now = 0
  /\ sessions = << >>
  /\ redis_sessions = << >>
  /\ spc = [p \in Procs |-> "idle"]
  /\ op = [p \in Procs |-> "none"]
  /\ user_id = [p \in Procs |-> NoUser]
  /\ session_token = [p \in Procs |-> NoToken]
  /\ existing_session = [p \in Procs |-> NoToken]
  /\ session = [p \in Procs |-> NoSession]
  /\ ttl = [p \in Procs |-> 0]
  /\ current_time = [p \in Procs |-> 0]
  /\ response = [p \in Procs |-> NoResponse]
  /\ verdict = [p \in Procs |-> NoVerdict]
  /\ attempted = [p \in Procs |-> {}]
  /\ born = << >>
  /\ cookies = {}
  /\ ended = [tok \in Tokens |-> "no"]
  /\ nops = 0

IdleSess == SessStart(Procs)

\* a deployment with one worker: requests are handled one at a time
SerialSess == SessStart({"r1"})

\* the clock advances by one tick; redis expires the keys whose TTL ran out
ClockAdvance ==
  /\ now < MaxNow
  /\ now' = now + 1
  /\ redis_sessions' = ExpireKeys(redis_sessions, now + 1)
  /\ UNCHANGED <<notSess, sessions, spc, op, user_id, session_token,
                 existing_session, session, ttl, current_time, response,
                 verdict, attempted, born, cookies, ended, nops,
                 workers>>

\* a request handler starts on worker p: its locals are fresh
Begin(p, o, tok, u) ==
  /\ p \in workers
  /\ spc[p] = "idle"
  /\ nops < MaxOps
  /\ nops' = nops + 1
  /\ op' = [op EXCEPT ![p] = o]
  /\ user_id' = [user_id EXCEPT ![p] = u]
  /\ session_token' = [session_token EXCEPT ![p] = tok]
  /\ verdict' = [verdict EXCEPT ![p] =
       [NoVerdict EXCEPT !.ended_before =
          IF tok = NoToken THEN "no" ELSE ended[tok]]]
  /\ attempted' = [attempted EXCEPT ![p] = {}]

\* the handler on worker p ends with the given status; its locals die
Finish(p, status) ==
  /\ spc' = [spc EXCEPT ![p] = "idle"]
  /\ response' = [response EXCEPT ![p] = status]
  /\ user_id' = [user_id EXCEPT ![p] = NoUser]
  /\ existing_session' = [existing_session EXCEPT ![p] = NoToken]
  /\ session' = [session EXCEPT ![p] = NoSession]
  /\ ttl' = [ttl EXCEPT ![p] = 0]
  /\ current_time' = [current_time EXCEPT ![p] = 0]

\* ---- auth_router.login (the password check has passed, line 84)
LoginCall(p, u) ==
  /\ Begin(p, "login", NoToken, u)
  /\ spc' = [spc EXCEPT ![p] = "login_get"]
  /\ response' = [response EXCEPT ![p] = NoResponse]
  /\ UNCHANGED <<notSess, now, sessions, redis_sessions, existing_session,
                 session, ttl, current_time, born, cookies, ended,
                 workers>>

\* line 91: get_session_by_user_id; line 92: if existing_session
LoginGetExisting(p) ==
  /\ spc[p] = "login_get"
  /\ \/ /\ get_session_by_user_id(sessions, user_id[p]) = {}
        /\ spc' = [spc EXCEPT ![p] = "create_insert"]
        /\ UNCHANGED existing_session
     \/ \E tok \in get_session_by_user_id(sessions, user_id[p]) :
          /\ existing_session' = [existing_session EXCEPT ![p] = tok]
          /\ spc' = [spc EXCEPT ![p] = "login_delete"]
  /\ UNCHANGED <<notSess, now, sessions, redis_sessions, op, user_id,
                 session_token, session, ttl, current_time, response,
                 verdict, attempted, born, cookies, ended, nops,
                 workers>>

\* line 93: delete_session_by_user_id(user_id)
LoginDeleteSessions(p) ==
  /\ spc[p] = "login_delete"
  /\ sessions' = delete_session_by_user_id(sessions, user_id[p])
  /\ spc' = [spc EXCEPT ![p] = "login_cache_delete"]
  /\ UNCHANGED <<notSess, now, redis_sessions, op, user_id, session_token,
                 existing_session, session, ttl, current_time, response,
                 verdict, attempted, born, cookies, ended, nops,
                 workers>>

\* line 94: cache_delete_session(existing_session["session_token"])
LoginCacheDelete(p) ==
  /\ spc[p] = "login_cache_delete"
  /\ redis_sessions' = cache_delete_session(redis_sessions,
                                            existing_session[p])
  /\ spc' = [spc EXCEPT ![p] = "create_insert"]
  /\ UNCHANGED <<notSess, now, sessions, op, user_id, session_token,
                 existing_session, session, ttl, current_time, response,
                 verdict, attempted, born, cookies, ended, nops,
                 workers>>

\* ---- auth_utils.create_session, called at login line 100
\* lines 98-109: current time, a fresh random token, the INSERT
CreateSessionInsert(p) ==
  /\ spc[p] = "create_insert"
  /\ \E tok \in Tokens \ DOMAIN born :
       /\ session_token' = [session_token EXCEPT ![p] = tok]
       /\ sessions' = repo_create_session(sessions, user_id[p], tok, now, now)
       /\ born' = (tok :> now) @@ born
  /\ spc' = [spc EXCEPT ![p] = "cache_set_hset"]
  /\ UNCHANGED <<notSess, now, redis_sessions, op, user_id, existing_session,
                 session, ttl, current_time, response, verdict,
                 attempted, cookies, ended, nops, workers>>

\* redis.cache_set_session lines 106-112: the TTL from the clock as it is
\* now, then HSET
CacheSetSessionHset(p) ==
  /\ spc[p] = "cache_set_hset"
  /\ ttl' = [ttl EXCEPT ![p] =
               Max(born[session_token[p]] + SESSION_ABSOLUTE_LIFETIME - now,
                   0)]
  /\ redis_sessions' =
       cache_set_session_hset(redis_sessions, session_token[p], user_id[p],
                              born[session_token[p]], born[session_token[p]])
  /\ spc' = [spc EXCEPT ![p] = "cache_set_expire"]
  /\ UNCHANGED <<notSess, now, sessions, op, user_id, session_token,
                 existing_session, session, current_time, response,
                 verdict, attempted, born, cookies, ended, nops,
                 workers>>

\* redis.cache_set_session line 113: EXPIRE; then login lines 101-103 set
\* the cookie and answer
CacheSetSessionExpire(p) ==
  /\ spc[p] = "cache_set_expire"
  /\ redis_sessions' =
       cache_set_session_expire(redis_sessions, session_token[p], now, ttl[p])
  /\ cookies' = cookies \cup {session_token[p]}
  /\ Finish(p, "200")
  /\ UNCHANGED <<notSess, now, sessions, op, session_token, verdict,
                 attempted, born, ended, nops, workers>>

\* ---- auth_utils.require_auth, the dependency of every protected route
\* authenticate_request lines 237-243: the cookie, 401 without one
RequireAuthCall(p, tok) ==
  /\ tok \in cookies \cup {NoToken}
  /\ Begin(p, "require_auth", tok, NoUser)
  /\ spc' = [spc EXCEPT ![p] = IF tok = NoToken THEN "idle" ELSE "cache_get"]
  /\ response' = [response EXCEPT ![p] =
                    IF tok = NoToken THEN "401" ELSE NoResponse]
  /\ UNCHANGED <<notSess, now, sessions, redis_sessions, existing_session,
                 session, ttl, current_time, born, cookies, ended,
                 workers>>

\* mutant of AuthenticateCacheHit: a cached session is validated against
\* the durable store all the same
AuthenticateCacheHitRevalidates(p) ==
  /\ spc[p] = "cache_get"
  /\ cache_get_session(redis_sessions, session_token[p])
  /\ spc' = [spc EXCEPT ![p] = "validate"]
  /\ UNCHANGED <<notSess, now, sessions, redis_sessions, op, user_id,
                 session_token, existing_session, session, ttl,
                 current_time, response, verdict, attempted, born,
                 cookies, ended, nops, workers>>

\* authenticate_request lines 247-263 on a cache hit: the cached hash is the
\* session, no expiry check; require_auth lines 273-274 then read user_id
\* and session_token from it (KeyError on a hash without them)
AuthenticateCacheHit(p) ==
  /\ spc[p] = "cache_get"
  /\ cache_get_session(redis_sessions, session_token[p])
  /\ verdict' = [verdict EXCEPT ![p] =
                   Decide(p, "session", "cache", FALSE)]
  /\ IF redis_sessions[session_token[p]].complete
       THEN /\ session' = [session EXCEPT ![p] =
                  [kind |-> "cache", complete |-> TRUE,
                   user_id |-> redis_sessions[session_token[p]].user_id]]
            /\ spc' = [spc EXCEPT ![p] = "touch_db"]
            /\ UNCHANGED <<response, user_id, existing_session, ttl,
                           current_time>>
       ELSE Finish(p, "500")
  /\ UNCHANGED <<notSess, now, sessions, redis_sessions, op, session_token,
                 attempted, born, cookies, ended, nops, workers>>

\* authenticate_request lines 247-251 on a cache miss
AuthenticateCacheMiss(p) ==
  /\ spc[p] = "cache_get"
  /\ ~cache_get_session(redis_sessions, session_token[p])
  /\ spc' = [spc EXCEPT ![p] = "validate"]
  /\ UNCHANGED <<notSess, now, sessions, redis_sessions, op, user_id,
                 session_token, existing_session, session, ttl,
                 current_time, response, verdict, attempted, born,
                 cookies, ended, nops, workers>>

\* mutant of ValidateSession: a token without a row is given a row
ValidateSessionRevives(p) ==
  /\ spc[p] = "validate"
  /\ sessions' = repo_create_session(sessions, NoUser, session_token[p],
                                     now, now)
  /\ verdict' = [verdict EXCEPT ![p] = Decide(p, "401", "db", FALSE)]
  /\ Finish(p, "401")
  /\ UNCHANGED <<notSess, now, redis_sessions, op, session_token, attempted,
                 born, cookies, ended, nops, workers>>

\* validate_session lines 197-211 (and authenticate_request 255-263): the
\* row by token; none: 401; expired: on to the delete; valid: the session
ValidateSession(p) ==
  /\ spc[p] = "validate"
  /\ IF ~get_session_by_token(sessions, session_token[p])
       THEN /\ verdict' = [verdict EXCEPT ![p] =
                             Decide(p, "401", "db", FALSE)]
            /\ Finish(p, "401")
       ELSE IF check_session_expiration(sessions[session_token[p]], now)
                 # "valid"
         THEN /\ verdict' = [verdict EXCEPT ![p] =
                [Decide(p, "401", "db", FALSE) EXCEPT
                   !.res = check_session_expiration(
                             sessions[session_token[p]], now)]]
              /\ spc' = [spc EXCEPT ![p] = "validate_delete"]
              /\ UNCHANGED <<session, response, user_id, existing_session,
                             ttl, current_time>>
         ELSE /\ verdict' = [verdict EXCEPT ![p] =
                             Decide(p, "session", "db", FALSE)]
              /\ session' = [session EXCEPT ![p] =
                   [kind |-> "row", complete |-> TRUE,
                    user_id |-> sessions[session_token[p]].user_id]]
              /\ spc' = [spc EXCEPT ![p] = "touch_db"]
              /\ UNCHANGED <<response, user_id, existing_session, ttl,
                             current_time>>
  /\ UNCHANGED <<notSess, now, sessions, redis_sessions, op, session_token,
                 attempted, born, cookies, ended, nops, workers>>

\* validate_session line 208: delete_session_by_token, then 401
ValidateDeleteExpired(p) ==
  /\ spc[p] = "validate_delete"
  /\ sessions' = delete_session_by_token(sessions, session_token[p])
  /\ ended' = [ended EXCEPT ![session_token[p]] =
                 IF @ = "no" THEN "expired" ELSE @]
  /\ Finish(p, "401")
  /\ UNCHANGED <<notSess, now, redis_sessions, op, session_token, verdict,
                 attempted, born, cookies, nops, workers>>

\* require_auth lines 277-283: current_time, then the UPDATE by user id
TouchDurable(p) ==
  /\ spc[p] = "touch_db"
  /\ current_time' = [current_time EXCEPT ![p] = now]
  /\ sessions' = update_session_last_active_by_user_id(sessions, now,
                                                       session[p].user_id)
  /\ spc' = [spc EXCEPT ![p] = "touch_cache"]
  /\ UNCHANGED <<notSess, now, redis_sessions, op, user_id, session_token,
                 existing_session, session, ttl, response, verdict,
                 attempted, born, cookies, ended, nops, workers>>

\* require_auth lines 285-290: cache_update_session, return user_id
TouchCache(p) ==
  /\ spc[p] = "touch_cache"
  /\ redis_sessions' = cache_update_session(redis_sessions, session_token[p],
                                            current_time[p])
  /\ Finish(p, "200")
  /\ UNCHANGED <<notSess, now, sessions, op, session_token, verdict,
                 attempted, born, cookies, ended, nops, workers>>

\* ---- auth_router.logout
\* lines 113-116: the cookie, 204 without one
LogoutCall(p, tok) ==
  /\ tok \in cookies \cup {NoToken}
  /\ Begin(p, "logout", tok, NoUser)
  /\ spc' = [spc EXCEPT ![p] = IF tok = NoToken THEN "idle" ELSE "logout_db"]
  /\ response' = [response EXCEPT ![p] =
                    IF tok = NoToken THEN "204" ELSE NoResponse]
  /\ UNCHANGED <<notSess, now, sessions, redis_sessions, existing_session,
                 session, ttl, current_time, born, cookies, ended,
                 workers>>

\* line 119: delete_session_by_token
LogoutDeleteSession(p) ==
  /\ spc[p] = "logout_db"
  /\ sessions' = delete_session_by_token(sessions, session_token[p])
  /\ attempted' = [attempted EXCEPT ![p] = @ \cup {"durable"}]
  /\ spc' = [spc EXCEPT ![p] = "logout_cache"]
  /\ UNCHANGED <<notSess, now, redis_sessions, op, user_id, session_token,
                 existing_session, session, ttl, current_time, response,
                 verdict, born, cookies, ended, nops, workers>>

\* lines 120-123: cache_delete_session, 200
LogoutCacheDelete(p) ==
  /\ spc[p] = "logout_cache"
  /\ redis_sessions' = cache_delete_session(redis_sessions, session_token[p])
  /\ attempted' = [attempted EXCEPT ![p] = @ \cup {"cache"}]
  /\ ended' = [ended EXCEPT ![session_token[p]] = "logout"]
  /\ Finish(p, "200")
  /\ UNCHANGED <<notSess, now, sessions, op, session_token, verdict, born,
                 cookies, nops, workers>>

\* ---- user_router.change_admin_status on user u, by an authenticated
\* ---- admin: line 187 is its only session call, delete_session_by_user_id;
\* ---- the handler needs a free worker
ChangeAdminStatus(u) ==
  /\ \E p \in workers : spc[p] = "idle"
  /\ nops < MaxOps
  /\ nops' = nops + 1
  /\ get_session_by_user_id(sessions, u) # {}
  /\ sessions' = delete_session_by_user_id(sessions, u)
  /\ ended' = [tok \in Tokens |->
                 IF tok \in get_session_by_user_id(sessions, u)
                   THEN "admin" ELSE ended[tok]]
  /\ UNCHANGED <<notSess, now, redis_sessions, spc, op, user_id,
                 session_token, existing_session, session, ttl,
                 current_time, response, verdict, attempted, born,
                 cookies, workers>>

NextSession ==
  \/ ClockAdvance
  \/ \E p \in Procs, u \in Users : LoginCall(p, u)
  \/ \E p \in Procs : LoginGetExisting(p)
  \/ \E p \in Procs : LoginDeleteSessions(p)
  \/ \E p \in Procs : LoginCacheDelete(p)
  \/ \E p \in Procs : CreateSessionInsert(p)
  \/ \E p \in Procs : CacheSetSessionHset(p)
  \/ \E p \in Procs : CacheSetSessionExpire(p)
  \/ \E p \in Procs, tok \in Tokens \cup {NoToken} : RequireAuthCall(p, tok)
  \/ \E p \in Procs : AuthenticateCacheHit(p)
  \/ \E p \in Procs : AuthenticateCacheMiss(p)
  \/ \E p \in Procs : ValidateSession(p)
  \/ \E p \in Procs : ValidateDeleteExpired(p)
  \/ \E p \in Procs : TouchDurable(p)
  \/ \E p \in Procs : TouchCache(p)
  \/ \E p \in Procs, tok \in Tokens \cup {NoToken} : LogoutCall(p, tok)
  \/ \E p \in Procs : LogoutDeleteSession(p)
  \/ \E p \in Procs : LogoutCacheDelete(p)
  \/ \E u \in Users : ChangeAdminStatus(u)

\* ---- faults of the stores
\* redis loses a key (eviction under maxmemory, a restart without
\* persistence)
CacheEvict(tok) ==
  /\ tok \in DOMAIN redis_sessions
  /\ redis_sessions' = cache_delete_session(redis_sessions, tok)
  /\ UNCHANGED <<notSess, now, sessions, spc, op, user_id, session_token,
                 existing_session, session, ttl, current_time, response,
                 verdict, attempted, born, cookies, ended, nops,
                 workers>>

\* authenticate_request line 247: cache_get_session raises (redis
\* unreachable); nothing catches it, the request ends with a 500
AuthenticateCacheFails(p) ==
  /\ spc[p] = "cache_get"
  /\ verdict' = [verdict EXCEPT ![p] =
                   Decide(p, "500", "none", TRUE)]
  /\ Finish(p, "500")
  /\ UNCHANGED <<notSess, now, sessions, redis_sessions, op, session_token,
                 attempted, born, cookies, ended, nops, workers>>

\* logout line 119: delete_session_by_token raises; nothing catches it,
\* line 120 is not reached
LogoutDeleteSessionFails(p) ==
  /\ spc[p] = "logout_db"
  /\ attempted' = [attempted EXCEPT ![p] = @ \cup {"durable"}]
  /\ Finish(p, "500")
  /\ UNCHANGED <<notSess, now, sessions, redis_sessions, op, session_token,
                 verdict, born, cookies, ended, nops, workers>>

\* logout line 120: cache_delete_session raises, after the durable delete
LogoutCacheDeleteFails(p) ==
  /\ spc[p] = "logout_cache"
  /\ attempted' = [attempted EXCEPT ![p] = @ \cup {"cache"}]
  /\ Finish(p, "500")
  /\ UNCHANGED <<notSess, now, sessions, redis_sessions, op, session_token,
                 verdict, born, cookies, ended, nops, workers>>

\* create_session line 109: the INSERT raises; lines 129-131 log and
\* re-raise, login ends with a 500: no row, no cache entry, no cookie
CreateSessionInsertFails(p) ==
  /\ spc[p] = "create_insert"
  /\ Finish(p, "500")
  /\ UNCHANGED <<notSess, now, sessions, redis_sessions, op, session_token,
                 verdict, attempted, born, cookies, ended, nops,
                 workers>>

\* cache_set_session line 112: HSET raises, after the INSERT; lines 129-131
\* log and re-raise, nothing removes the row
CacheSetSessionHsetFails(p) ==
  /\ spc[p] = "cache_set_hset"
  /\ Finish(p, "500")
  /\ UNCHANGED <<notSess, now, sessions, redis_sessions, op, session_token,
                 verdict, attempted, born, cookies, ended, nops,
                 workers>>

\* cache_set_session line 113: EXPIRE raises; create_session logs and
\* re-raises (lines 129-131), login ends with a 500 and sets no cookie
CacheSetSessionExpireFails(p) ==
  /\ spc[p] = "cache_set_expire"
  /\ Finish(p, "500")
  /\ UNCHANGED <<notSess, now, sessions, redis_sessions, op, session_token,
                 verdict, attempted, born, cookies, ended, nops,
                 workers>>

\* validate_session line 199: get_session_by_token raises (postgres
\* unreachable); lines 221-223 catch it, log and return None, and
\* authenticate_request lines 255-258 answer 401
ValidateSessionFails(p) ==
  /\ spc[p] = "validate"
  /\ verdict' = [verdict EXCEPT ![p] = Decide(p, "401", "db_error", FALSE)]
  /\ Finish(p, "401")
  /\ UNCHANGED <<notSess, now, sessions, redis_sessions, op, session_token,
                 attempted, born, cookies, ended, nops, workers>>

\* mutant of TouchDurableFails: no try/except around the refresh
TouchDurableFailsUncaught(p) ==
  /\ spc[p] = "touch_db"
  /\ verdict' = [verdict EXCEPT ![p].touch_failed = "durable"]
  /\ Finish(p, "500")
  /\ UNCHANGED <<notSess, now, sessions, redis_sessions, op, session_token,
                 attempted, born, cookies, ended, nops, workers>>

\* require_auth lines 279-281: update_session_last_active_by_user_id raises;
\* lines 286-288 catch it and log, line 285 is skipped, line 290 returns
TouchDurableFails(p) ==
  /\ spc[p] = "touch_db"
  /\ verdict' = [verdict EXCEPT ![p].touch_failed = "durable"]
  /\ Finish(p, "200")
  /\ UNCHANGED <<notSess, now, sessions, redis_sessions, op, session_token,
                 attempted, born, cookies, ended, nops, workers>>

\* require_auth line 285: cache_update_session raises, after the durable
\* update; lines 286-288 catch it and log, line 290 returns
TouchCacheFails(p) ==
  /\ spc[p] = "touch_cache"
  /\ verdict' = [verdict EXCEPT ![p].touch_failed = "cache"]
  /\ Finish(p, "200")
  /\ UNCHANGED <<notSess, now, sessions, redis_sessions, op, session_token,
                 attempted, born, cookies, ended, nops, workers>>

NextSessionFaults ==
  \/ NextSession
  \/ \E tok \in Tokens : CacheEvict(tok)
  \/ \E p \in Procs : AuthenticateCacheFails(p)
  \/ \E p \in Procs : LogoutDeleteSessionFails(p)
  \/ \E p \in Procs : LogoutCacheDeleteFails(p)
  \/ \E p \in Procs : CreateSessionInsertFails(p)
  \/ \E p \in Procs : CacheSetSessionHsetFails(p)
  \/ \E p \in Procs : CacheSetSessionExpireFails(p)
  \/ \E p \in Procs : ValidateSessionFails(p)
  \/ \E p \in Procs : TouchDurableFails(p)
  \/ \E p \in Procs : TouchCacheFails(p)


(***************************************************************************)
(* Specifications                                                          *)
(***************************************************************************)
Init == InitGen /\ IdleB62 /\ IdleClick /\ IdleSess

Next == NextGen

Spec == Init /\ [][Next]_vars

\* the generator with the test harness that forces the sequence counter
SpecForced == Init /\ [][NextForced]_vars

\* A clock that never runs backwards: ClockBack is left out, and with it the
\* branch of line 124-125, whose condition such a clock never makes true.
NextForward ==
  \/ Tick
  \/ \E t \in Threads, g \in Gens : NextIdCall(t, g)
  \/ \E t \in Threads : NextIdAcquire(t)
  \/ \E t \in Threads : NextIdReadClock(t)
  \/ \E t \in Threads : NextIdSameMillisecond(t)
  \/ \E t \in Threads : NextIdNewMillisecond(t)
  \/ \E t \in Threads : NextIdTrack(t)
  \/ \E t \in Threads : NextIdReturn(t)

\* The clock keeps advancing; threading.Lock is granted fairly (a waiter that
\* finds the lock free again and again gets it); a thread inside next_id keeps
\* running. Nothing obliges a caller to call again. Every step of the
\* generator changes the clock, a lock or a position.
progress == <<clock, lock, pc>>

FairForward ==
  /\ WF_progress(Tick)
  /\ \A t \in Threads : SF_progress(NextIdAcquire(t))
  /\ \A t \in Threads :
       WF_progress(\/ NextIdReadClock(t)
                   \/ NextIdSameMillisecond(t)
                   \/ NextIdNewMillisecond(t)
                   \/ NextIdTrack(t)
                   \/ NextIdReturn(t))

SpecForward == Init /\ [][NextForward]_vars /\ FairForward

InitBase62 == IdleGen /\ InitB62 /\ IdleClick /\ IdleSess

SpecBase62 == InitBase62 /\ [][NextB62]_vars

InitClicks == IdleGen /\ IdleB62 /\ InitClick /\ IdleSess

SpecClicks == InitClicks /\ [][NextClick]_vars

\* the click buffer with a durable store whose update may fail
SpecClicksFail == InitClicks /\ [][NextClickFail]_vars

InitSessions == IdleGen /\ IdleB62 /\ IdleClick /\ IdleSess

SpecSession == InitSessions /\ [][NextSession]_vars

\* the session code over stores that may fail or lose a key
SpecSessionFaults == InitSessions /\ [][NextSessionFaults]_vars

InitSerial == IdleGen /\ IdleB62 /\ IdleClick /\ SerialSess

\* the session code with one worker
SpecSessionSerial == InitSerial /\ [][NextSession]_vars

\* one worker, over stores that may fail or lose a key
SpecSessionSerialFaults == InitSerial /\ [][NextSessionFaults]_vars


(***************************************************************************)
(* Properties of SnowflakeGenerator (specification Spec)                   *)
(***************************************************************************)
IdTimestamp(id) == id \div Pow(2, timestamp_shift) + epoch
IdSequence(id)  == id % Pow(2, sequence_bits)

Finished(t) == pc[t] = "idle" /\ outcome[t] # None

\* C1: for one generator instance, under any interleaving of concurrent
\* next_id() callers and any clock behaviour, no two calls that return a
\* value return the same id.
C1_NoDuplicateIds ==
  \A g \in Gens : \A i, j \in 1 .. Len(issued[g]) :
    i # j => issued[g][i] # issued[g][j]

\* two different threads have each been returned an id by the same instance
C1_Witness ==
  \E t, u \in Threads :
    /\ t # u
    /\ gen[t] = gen[u]
    /\ Finished(t) /\ outcome[t].kind = "id"
    /\ Finished(u) /\ outcome[u].kind = "id"

\* C2: the ids one instance returns are non-decreasing in the order in which
\* the calls pass through the critical section.
C2_NonDecreasing ==
  \A g \in Gens : \A i, j \in 1 .. Len(issued[g]) :
    i < j => issued[g][i] <= issued[g][j]

\* one instance has issued three ids
C2_Witness == \E g \in Gens : Len(issued[g]) >= 3

\* C3: two instances constructed with different worker ids and the same
\* epoch never return equal ids, whatever the clock reads.
C3_DistinctAcrossWorkers ==
  \A g, h \in Gens :
    worker_id[g] # worker_id[h] =>
      \A i \in 1 .. Len(issued[g]), j \in 1 .. Len(issued[h]) :
        issued[g][i] # issued[h][j]

\* two instances with different worker ids issued ids for the same millisecond
C3_Witness ==
  \E g, h \in Gens :
    /\ worker_id[g] # worker_id[h]
    /\ \E i \in 1 .. Len(issued[g]), j \in 1 .. Len(issued[h]) :
         IdTimestamp(issued[g][i]) = IdTimestamp(issued[h][j])

\* C4: a call that reads a clock value smaller than last_timestamp fails with
\* the clock-moved-backwards error: it goes no further in next_id and returns
\* no id.
C4_ClockRegressionFails ==
  \A t \in Threads :
    (pc[t] \in {"track", "compose", "idle"} /\ timestamp[t] < seen[t].last) =>
      /\ pc[t] = "idle"
      /\ outcome[t].kind = "ClockMovedBackwards"

\* a call read a clock value below last_timestamp and has ended
C4_Witness ==
  \E t \in Threads :
    /\ Finished(t)
    /\ timestamp[t] < seen[t].last
    /\ outcome[t].kind = "ClockMovedBackwards"

\* C5 (specification SpecForced): a call that finds sequence = 4095 and reads
\* the clock equal to last_timestamp does not fail; it returns, once the clock
\* has advanced, an id with a timestamp greater than that last_timestamp and
\* sequence 0.
C5_WaitsForNextMillisecond ==
  \A t \in Threads :
    (Finished(t) /\ timestamp[t] = seen[t].last /\ seen[t].seq = max_sequence) =>
      /\ outcome[t].kind = "id"
      /\ IdTimestamp(outcome[t].id) > seen[t].last
      /\ IdSequence(outcome[t].id) = 0

(***************************************************************************)
(* Properties of the base-62 codec (specification SpecBase62)              *)
(***************************************************************************)
Alphabet == {character_set[i] : i \in 1 .. Len(character_set)}

\* C6: decode_base_62(encode_base_62(n)) = n for every n of the bounded
\* range (0, 61, 62, 62^k - 1, 62^k, 62^k + 1, 2^31 - 1 among them).
C6_RoundTrip ==
  b62_dec # NotRunInt => b62_dec = IntResult(b62_num)

\* the round trip of 62^3 - 1 ("zzz") has been computed
C6_Witness ==
  /\ b62_num = Pow(base, 3) - 1
  /\ b62_enc.value = <<"z", "z", "z">>
  /\ b62_dec = IntResult(b62_num)

\* C7: encode_base_62(0) is "0", and for n > 0 the first character of
\* encode_base_62(n) is not "0".
C7_ZeroAndNoLeadingZero ==
  b62_enc # NotRunStr =>
    /\ b62_num = 0 => b62_enc.value = <<"0">>
    /\ b62_num > 0 => (Len(b62_enc.value) >= 1 /\ Head(b62_enc.value) # "0")

\* 62 has been encoded ("10": a zero digit, but not in front)
C7_Witness ==
  /\ b62_num = base
  /\ b62_enc.value = <<"1", "0">>

\* C8: decode_base_62(s) fails with the lookup error, and returns no integer,
\* whenever s has a character outside the alphabet, wherever it occurs.
C8_InvalidCharacterFails ==
  (b62_sdec # NotRunInt /\ \E i \in 1 .. Len(b62_str) : b62_str[i] \notin Alphabet)
    => b62_sdec = KeyError

\* a string with its only invalid character in the middle has been decoded
C8_Witness ==
  /\ b62_str = <<"A", "!", "z">>
  /\ b62_sdec = KeyError

(***************************************************************************)
(* Properties of the click buffer (specification SpecClicks)               *)
(***************************************************************************)
\* C9: CLICK_THRESHOLD sequential calls on a fresh code cause exactly one
\* durable update, of delta CLICK_THRESHOLD; afterwards the cache delta is 0
\* and get_total_clicks returns CLICK_THRESHOLD.
C9_ThresholdFlushesOnce ==
  \A c \in Codes :
    (~overlapped[c] /\ InProgress(c) = {} /\ started[c] = CLICK_THRESHOLD) =>
      /\ flushes[c] = <<CLICK_THRESHOLD>>
      /\ cache_get_url_click(redis_clicks, c) = 0
      /\ get_total_clicks(url_clicks, c) = CLICK_THRESHOLD

\* CLICK_THRESHOLD calls ran one after the other on a code and the last
\* one has flushed
C9_Witness ==
  \E c \in Codes :
    /\ ~overlapped[c]
    /\ InProgress(c) = {}
    /\ started[c] = CLICK_THRESHOLD
    /\ Len(flushes[c]) = 1

\* C10: whenever no call is in progress on a code, its durable count plus
\* its cache delta equals the number of calls made for it.
C10_NoClickLostOrDoubled ==
  \A c \in Codes :
    InProgress(c) = {} =>
      get_total_clicks(url_clicks, c) + cache_get_url_click(redis_clicks, c)
        = started[c]


\* C11: two callers that both read a delta at or above the threshold do not
\* both apply the same clicks: the durable total of a code never exceeds the
\* number of calls made for it.
C11_DurableAtMostCalls ==
  \A c \in Codes : get_total_clicks(url_clicks, c) <= started[c]

\* C12 (specification SpecClicksFail): the cache key of a code is deleted only
\* after the durable flush of its delta has succeeded: while a call that read
\* the delta click_count has not flushed it, or once its flush has failed, the
\* cache still holds that delta (calls running one at a time).
C12_DeleteOnlyAfterFlush ==
  \A k \in Tasks :
    (rpc[k] \in {"flush", "failed"} /\ ~overlapped[rcode[k]]) =>
      cache_get_url_click(redis_clicks, rcode[k]) >= click_count[k]

(***************************************************************************)
(* Properties of the sessions (specifications SpecSession and              *)
(* SpecSessionFaults)                                                      *)
(***************************************************************************)
\* C13: a request whose session has been idle for longer than the idle
\* lifetime (durable last_active_at, no touch since) while still inside the
\* absolute lifetime is not given a session by authenticate_request, cache
\* copy or not.
C13_IdleSessionRejected ==
  \A p \in Procs :
    (verdict[p].idle_over /\ verdict[p].abs_left) =>
      verdict[p].res # "session"

\* C14: a request made when now - created_at exceeds the absolute lifetime
\* is not given a session, although touches have kept the idle time of its
\* durable row within the idle lifetime.
C14_AbsoluteLifetimeRejected ==
  \A p \in Procs :
    (verdict[p].abs_over /\ verdict[p].had_row /\ ~verdict[p].idle_over) =>
      verdict[p].res # "session"

\* C15: in every reachable state a cache entry under a session's key has an
\* expiry, and that expiry is not past created_at + absolute lifetime of the
\* session.
C15_CacheEntryBounded ==
  \A tok \in DOMAIN redis_sessions :
    /\ redis_sessions[tok].has_ttl
    /\ redis_sessions[tok].expire_at
         <= born[tok] + SESSION_ABSOLUTE_LIFETIME

\* C16 (specification SpecSessionFaults): a require_auth that found no
\* cache entry for a session still inside its absolute lifetime, succeeded
\* through the durable store and ends while the row is still there, leaves a
\* complete cache entry with a TTL under the token.
C16_FallbackRepopulatesCache ==
  [][\A p \in Procs :
       (/\ op[p] = "require_auth"
        /\ spc[p] # "idle" /\ spc'[p] = "idle"
        /\ response'[p] = "200"
        /\ verdict[p].via = "db" /\ verdict[p].abs_left
        /\ session_token[p] \in DOMAIN sessions') =>
         /\ session_token[p] \in DOMAIN redis_sessions'
         /\ redis_sessions'[session_token[p]].complete
         /\ redis_sessions'[session_token[p]].has_ttl]_vars

\* C17: once a logout for a token has completed, the token has neither a
\* durable row nor a cache entry.
C17_LogoutRemovesBoth ==
  \A tok \in Tokens :
    ended[tok] = "logout" =>
      (tok \notin DOMAIN sessions /\ tok \notin DOMAIN redis_sessions)

\* C18 (specification SpecSessionFaults): a logout that carried a cookie
\* and has ended, with or without an error, attempted the delete on both
\* stores.
C18_BothDeletesAttempted ==
  \A p \in Procs :
    (op[p] = "logout" /\ spc[p] = "idle" /\ session_token[p] # NoToken) =>
      attempted[p] = {"durable", "cache"}

\* C19: a request that starts after an admin-driven invalidation
\* (change_admin_status) of its token's session has completed is not
\* authenticated.
C19_AdminInvalidationRejected ==
  \A p \in Procs :
    verdict[p].ended_before = "admin" => verdict[p].res # "session"

\* C20 (specification SpecSessionFaults): a request whose cache read fails
\* while the durable store holds an unexpired row for its token is still
\* authenticated.
C20_CacheFailureNotFatal ==
  \A p \in Procs :
    (/\ verdict[p].cache_failed
     /\ verdict[p].had_row /\ ~verdict[p].idle_over /\ ~verdict[p].abs_over)
      =>
      verdict[p].res = "session"

(***************************************************************************)
(* Further properties of SnowflakeGenerator                                *)
(***************************************************************************)
\* the positions of next_id inside `with self.lock`
InCritical(t) == pc[t] \in {"read", "check", "track", "compose"}

\* C27: a call that reads a clock value equal to last_timestamp while the
\* sequence s is below 4095 returns an id with that timestamp and sequence
\* s + 1.
C27_SameMillisecondIncrements ==
  \A t \in Threads :
    (Finished(t) /\ timestamp[t] = seen[t].last /\ seen[t].seq < max_sequence)
      => /\ outcome[t].kind = "id"
         /\ IdTimestamp(outcome[t].id) = timestamp[t]
         /\ IdSequence(outcome[t].id) = seen[t].seq + 1

\* C28 (specification SpecForced): a call that reads a clock value greater
\* than last_timestamp returns an id that carries sequence 0, whatever the
\* sequence was before the call.
C28_NewMillisecondResets ==
  \A t \in Threads :
    (Finished(t) /\ outcome[t].kind = "id" /\ timestamp[t] > seen[t].last)
      => IdSequence(outcome[t].id) = 0

\* C29: every id returned is
\* ((t - epoch) << 22) | (worker_id << 12) | sequence with worker_id in
\* 0..1023 and sequence in 0..4095, and each field is recovered from it:
\* id mod 4096 = sequence, (id >> 12) mod 1024 = worker_id,
\* id >> 22 = t - epoch.
C29_FieldsRecoverable ==
  \A t \in Threads :
    (Finished(t) /\ outcome[t].kind = "id") =>
      /\ worker_id[gen[t]] \in 0 .. max_worker_id
      /\ seen[t].seq \in 0 .. max_sequence
      /\ outcome[t].id % Pow(2, sequence_bits) = seen[t].seq
      /\ (outcome[t].id \div Pow(2, worker_id_shift)) % Pow(2, worker_id_bits)
           = worker_id[gen[t]]
      /\ outcome[t].id \div Pow(2, timestamp_shift) = timestamp[t] - epoch

\* an id was returned by the instance with the largest worker id, for a
\* millisecond after the epoch
C29_Witness ==
  \E t \in Threads :
    /\ Finished(t) /\ outcome[t].kind = "id"
    /\ timestamp[t] > epoch
    /\ worker_id[gen[t]] = max_worker_id

\* C30: a caller between the clock read and the return of next_id() holds
\* the lock of its generator, so at most one caller of a generator is there
\* at a time.
C30_SingleCriticalSection ==
  \A t, u \in Threads :
    InCritical(t) =>
      /\ lock[gen[t]] = t
      /\ (u # t /\ gen[u] = gen[t]) => ~InCritical(u)

\* one caller is inside the critical section while another caller of the
\* same generator waits for the lock
C30_Witness ==
  \E t, u \in Threads :
    /\ t # u /\ gen[t] = gen[u]
    /\ pc[t] = "track"
    /\ pc[u] = "lock"

(***************************************************************************)
(* Further properties of the sessions                                      *)
(***************************************************************************)
\* C21 (specification SpecSessionFaults): a request that missed the cache
\* and whose durable read failed ends with a server error, not with the 401
\* of an invalid or expired session.
C21_DurableFailureIsServerError ==
  \A p \in Procs : verdict[p].via = "db_error" => response[p] = "500"

\* C22 (specification SpecSessionSerialFaults): a failure of the durable
\* update or of the cache update of the refresh in require_auth does not
\* fail the request: require_auth returns the user id.
C22_TouchFailureTolerated ==
  \A p \in Procs :
    verdict[p].touch_failed # "no" =>
      (spc[p] = "idle" /\ response[p] = "200" /\ verdict[p].res = "session")

\* a request validated through the durable store whose durable refresh
\* failed has been answered
C22_Witness ==
  \E p \in Procs :
    /\ verdict[p].touch_failed = "durable"
    /\ verdict[p].via = "db"
    /\ response[p] = "200"

C24_StrictLifetimes ==
  \A p \in Procs :
    (verdict[p].via = "db" /\ verdict[p].had_row) =>
      (verdict[p].res = "session"
         <=> (verdict[p].abs_left /\ verdict[p].idle_left))

\* C25: once a validation that found the session of a token expired has
\* completed, the token has neither a durable row nor a cache entry,
\* whatever touches run concurrently.
C25_ExpiredRemovesBoth ==
  \A tok \in Tokens :
    ended[tok] = "expired" =>
      (tok \notin DOMAIN sessions /\ tok \notin DOMAIN redis_sessions)

\* C26 (specification SpecSessionSerial): every step of a require_auth
\* whose token is in neither the cache nor the durable store leaves both
\* stores as they are, and the request ends with the 401 of an invalid
\* session.
C26_AbsentTokenInvalid ==
  [][\A p \in Procs :
       (/\ op[p] = "require_auth"
        /\ spc[p] \in {"cache_get", "validate"}
        /\ spc'[p] # spc[p]
        /\ session_token[p] \notin DOMAIN sessions
        /\ session_token[p] \notin DOMAIN redis_sessions) =>
         /\ sessions' = sessions
         /\ redis_sessions' = redis_sessions
         /\ spc'[p] \in {"validate", "idle"}
         /\ spc'[p] = "idle" =>
              (response'[p] = "401" /\ verdict'[p].res = "401")]_vars

\* a request carrying a token that had been handed out, and is in neither
\* store, has been answered 401
C26_Witness ==
  \E p \in Procs :
    /\ op[p] = "require_auth" /\ spc[p] = "idle"
    /\ session_token[p] \in cookies
    /\ session_token[p] \notin DOMAIN sessions
    /\ session_token[p] \notin DOMAIN redis_sessions
    /\ verdict[p].res = "401" /\ ~verdict[p].had_row
    /\ response[p] = "401"

(***************************************************************************)
(* C31..C40                                                                *)
(***************************************************************************)
\* C31: with a clock that keeps advancing and never runs backwards, and a
\* fairly granted lock, every next_id() call eventually returns an id.
C31_EveryCallReturns ==
  \A t \in Threads :
    (pc[t] = "lock") ~> (pc[t] = "idle" /\ outcome[t].kind = "id")

\* C32: a successful touch at time now writes last_active_at = now to the
\* durable record of the session and to its cache copy, and changes nothing
\* else of the cache copy (expiry deadline, created_at, subject) nor its key.
C32_TouchSetsLastActive ==
  [][\A p \in Procs :
       LET tok == session_token[p]
       IN /\ (spc[p] = "touch_db" /\ spc'[p] = "touch_cache") =>
               /\ current_time'[p] = now
               /\ redis_sessions' = redis_sessions
               /\ DOMAIN sessions' = DOMAIN sessions
               /\ tok \in DOMAIN sessions =>
                    sessions'[tok] =
                      [sessions[tok] EXCEPT !.last_active_at = now]
          /\ (/\ spc[p] = "touch_cache"
              /\ spc'[p] = "idle"
              /\ verdict'[p].touch_failed = "no") =>
               /\ response'[p] = "200"
               /\ sessions' = sessions
               /\ tok \in DOMAIN redis_sessions =>
                    /\ DOMAIN redis_sessions' = DOMAIN redis_sessions
                    /\ redis_sessions'[tok] =
                         [redis_sessions[tok] EXCEPT
                            !.last_active_at = current_time[p]]
     ]_vars

\* a request validated from the cache has touched both copies, after the
\* session's creation time, and the cache copy kept its deadline
C32_Witness ==
  \E p \in Procs :
    LET tok == session_token[p]
    IN /\ op[p] = "require_auth"
       /\ response[p] = "200"
       /\ verdict[p].via = "cache"
       /\ verdict[p].touch_failed = "no"
       /\ tok \in DOMAIN sessions
       /\ tok \in DOMAIN redis_sessions
       /\ sessions[tok].last_active_at = now
       /\ redis_sessions[tok].last_active_at = now
       /\ redis_sessions[tok].created_at < now
       /\ redis_sessions[tok].has_ttl
       /\ redis_sessions[tok].expire_at
            = redis_sessions[tok].created_at + SESSION_ABSOLUTE_LIFETIME

\* C33: when the cache holds a record for the token, validation accepts it
\* as it is: the durable store is not read, no expiry check is made (an
\* overdue session is accepted too), and neither store is modified.
C33_CacheHitAccepted ==
  [][\A p \in Procs :
       (/\ spc[p] = "cache_get"
        /\ spc'[p] # "cache_get"
        /\ cache_get_session(redis_sessions, session_token[p])
        /\ ~verdict'[p].cache_failed) =>
          /\ verdict'[p].res = "session"
          /\ verdict'[p].via = "cache"
          /\ spc'[p] \notin {"validate", "validate_delete"}
          /\ sessions' = sessions
          /\ redis_sessions' = redis_sessions
     ]_vars

\* a cached session was accepted although its idle lifetime was over
C33_Witness ==
  \E p \in Procs :
    /\ spc[p] = "touch_db"
    /\ verdict[p].res = "session"
    /\ verdict[p].via = "cache"
    /\ verdict[p].had_row
    /\ verdict[p].idle_over

\* C34: get_total_clicks returns the durable count of the code and never
\* the cache delta, and a click whose delta stays below the threshold leaves
\* the durable count and the result of get_total_clicks as they were.
C34_TotalIsDurableOnly ==
  [][/\ \A c \in Codes :
          total_clicks'[c] # total_clicks[c] =>
            total_clicks'[c] = IF c \in DOMAIN url_clicks THEN url_clicks[c]
                               ELSE 0
     /\ \A k \in Tasks :
          (/\ rpc[k] \in {"incr", "check"}
           /\ rpc'[k] # rpc[k]
           /\ ~ThresholdReached(click_count'[k])) =>
             /\ url_clicks' = url_clicks
             /\ get_total_clicks(url_clicks, rcode[k])'
                  = get_total_clicks(url_clicks, rcode[k])
    ]_vars

\* a read made while the cache held an unflushed click returned the
\* flushed clicks only
C34_Witness ==
  \E c \in Codes :
    /\ InProgress(c) = {}
    /\ started[c] = CLICK_THRESHOLD + 1
    /\ cache_get_url_click(redis_clicks, c) = 1
    /\ total_clicks[c] = CLICK_THRESHOLD

\* C35: a session key of the cache never holds a partial hash: every record
\* a cache read returns has the four fields user_id, session_token,
\* created_at and last_active_at.
C35_NoPartialCacheEntry ==
  \A tok \in DOMAIN redis_sessions : redis_sessions[tok].complete

\* C36: under any interleaving of concurrent generate_backhalf_alias calls on
\* the process-wide AliasGenerator, no two calls that return a code return
\* the same string.
C36_NoDuplicateAliases ==
  \A i, j \in 1 .. Len(issued[alias_generator]) :
    i # j => generate_backhalf_alias(issued[alias_generator][i])
               # generate_backhalf_alias(issued[alias_generator][j])

\* two threads have each been returned a code by the singleton
C36_Witness ==
  /\ worker_id[alias_generator] = 0
  /\ Len(issued[alias_generator]) >= 2
  /\ \E t, u \in Threads :
       /\ t # u
       /\ gen[t] = alias_generator /\ gen[u] = alias_generator
       /\ pc[t] = "idle" /\ outcome[t].kind = "id"
       /\ pc[u] = "idle" /\ outcome[u].kind = "id"
       /\ Len(generate_backhalf_alias(outcome[t].id)) > 1

\* C37: a call that fails with the clock-moved-backwards error leaves
\* last_timestamp and sequence as they were and releases the lock; a call
\* that enters the critical section after it and reads a clock value of at
\* least last_timestamp goes on to return an id.
C37_FailedCallLeavesGeneratorUsable ==
  [][\A t \in Threads :
       /\ (/\ pc[t] = "check"
           /\ pc'[t] # "check"
           /\ timestamp[t] < last_timestamp[gen[t]]) =>
             /\ outcome'[t].kind = "ClockMovedBackwards"
             /\ last_timestamp' = last_timestamp
             /\ sequence' = sequence
             /\ lock'[gen[t]] = NoThread
       /\ (/\ pc[t] = "check"
           /\ pc'[t] # "check"
           /\ timestamp[t] >= last_timestamp[gen[t]]
           /\ \E u \in Threads \ {t} :
                /\ gen[u] = gen[t]
                /\ Finished(u)
                /\ outcome[u].kind = "ClockMovedBackwards") =>
             /\ pc'[t] = "track"
             /\ outcome'[t].kind = "none"
     ]_vars

\* C38: when create_session fails (the INSERT, the HSET or the EXPIRE
\* raises), neither the durable store nor the cache holds a record for the
\* token it generated.
C38_FailedCreateLeavesNothing ==
  \A p \in Procs :
    (op[p] = "login" /\ spc[p] = "idle" /\ response[p] = "500") =>
      /\ session_token[p] \notin DOMAIN sessions
      /\ session_token[p] \notin DOMAIN redis_sessions

\* C39: once every login of an interleaving of logins of a user has
\* completed (nothing but logins has run), the durable store holds exactly
\* one session of the user, and no other token issued to the user is
\* accepted: it has neither a row nor a cache entry.
C39_OneSessionAfterLogins ==
  \A u \in Users :
    (/\ \A p \in Procs : spc[p] = "idle"
     /\ nops >= 1
     /\ Cardinality(cookies) = nops) =>
       /\ Cardinality(get_session_by_user_id(sessions, u)) = 1
       /\ \A tok \in cookies \ get_session_by_user_id(sessions, u) :
            ~cache_get_session(redis_sessions, tok)

\* C40: when the calls of update_clicks_and_redirect for a code run one at a
\* time, then after each call the cache delta of the code is below the
\* threshold, and the durable total is behind the number of clicks by that
\* delta, fewer than CLICK_THRESHOLD clicks.
C40_DeltaBelowThreshold ==
  \A c \in Codes :
    (~overlapped[c] /\ InProgress(c) = {}) =>
      /\ cache_get_url_click(redis_clicks, c) < CLICK_THRESHOLD
      /\ started[c] - get_total_clicks(url_clicks, c)
           = cache_get_url_click(redis_clicks, c)
      /\ started[c] - get_total_clicks(url_clicks, c) < CLICK_THRESHOLD

\* after a flush, calls one at a time have brought the delta to its largest
\* value again
C40_Witness ==
  \E c \in Codes :
    /\ ~overlapped[c]
    /\ InProgress(c) = {}
    /\ flushes[c] # <<>>
    /\ cache_get_url_click(redis_clicks, c) = CLICK_THRESHOLD - 1
    /\ started[c] = 2 * CLICK_THRESHOLD - 1

====
